---------------------------- MODULE Spec2Model ----------------------------
(* A model of src/main.py: the KoBoToolbox upload script.                  *)
(*                                                                         *)
(* main() loads the configuration, reads the parent table and then, for    *)
(* every parent row, matches the child rows of every configured child      *)
(* table, builds one XML document (process_submission) and submits         *)
(* post_submission for it to a ThreadPoolExecutor(max_workers=5).  The     *)
(* `with` block leaves through shutdown(wait=True).                        *)
(*                                                                         *)
(* The executor is modelled by what concurrent.futures documents and does: *)
(* submit appends to an unbounded FIFO queue and never blocks, at most     *)
(* max_workers threads are started, each runs one work item at a time, an  *)
(* exception of a work item stays in its future, and shutdown(wait=True)   *)
(* returns when the queue is drained and every worker is done.             *)
(*                                                                         *)
(* Tables are sheets with one set of columns each.  Identifier cells are   *)
(* small integers, parent identifiers are unique, and the configured       *)
(* identifier columns are both "FID"; the date and the project UUID are    *)
(* fixed strings.  requests.post has no timeout: a request in flight may   *)
(* stay so forever unless a specification states fairness for the workers. *)
EXTENDS Integers, Sequences, FiniteSets, TLC

VARIABLES
    df_parent,    \* the parent table read at line 136: [columns, rows]
    df_children,  \* config['child_data_paths'] with the files behind them
    pc,           \* where main() is: start, no_config (returned at line 134),
                  \* loop, exiting (in __exit__), returned, raised
    i,            \* 1-based position of the next parent row of the loop
    err,          \* an exception is propagating out of the loop body
    docs,         \* docs[d]: the root handed to the d-th executor.submit
    st,           \* st[d]: state of the d-th submitted post_submission call
    reqs,         \* reqs[d]: requests.post calls made for the d-th document
    queue,        \* the executor's work queue (FIFO of document numbers)
    nThreads,     \* worker threads the executor has started
    warnings      \* the logging.warning lines of line 152, in order

vars == <<df_parent, df_children, pc, i, err, docs, st, reqs, queue,
          nThreads, warnings>>

-----------------------------------------------------------------------------
(* Bounds of the model and constants of the program.                       *)

MaxChildRows == 2   \* rows of one child table (Spec)
MaxBatch == 6       \* parent rows of a batch (PoolSpec)
MaxFairBatch == 5   \* parent rows of a batch (FairSpec)
max_workers == 5    \* ThreadPoolExecutor(max_workers=5)

Keys == {1, 2}      \* values of the identifier columns

-----------------------------------------------------------------------------
(* Cells of a table and their text.                                        *)

IntCell(n) == [t |-> "int", v |-> n]
StrCell(s) == [t |-> "str", v |-> s]
NaN == [t |-> "nan", v |-> "nan"]

\* str(value) of lines 65-69, 77, 83-87
str(c) ==
    CASE c.t = "int" -> ToString(c.v)
      [] c.t = "str" -> c.v
      [] OTHER -> "nan"

\* the elementwise == of line 150 (NaN equals nothing)
CellEq(a, b) == a.t = b.t /\ a.t # "nan" /\ a.v = b.v

ParentFields == {"FID", "HName", "HSex", "HAge", "HLocation"}
ChildFields == {"FID", "Individual_FullName", "Individual_Sex",
                "Individual_Age", "Relationship"}

parent_id_column == "FID"   \* config['parent_id_column']
child_id_column == "FID"    \* config['child_id_column']
project_uuid == "uuid"      \* config['project_uuid']
today_str == "2023-05-01"   \* date.today().strftime('%Y-%m-%d')

\* one row of the parent sheet with the given columns and identifier
ParentRow(cols, id) ==
    [c \in cols |->
        CASE c = "FID" -> IntCell(id)
          [] c = "HAge" -> IntCell(40)
          [] c = "HName" -> StrCell("Doe")
          [] c = "HSex" -> StrCell("M")
          [] OTHER -> StrCell("X")]

\* row r of child sheet t with the given columns and foreign key
ChildRow(cols, t, r, key) ==
    [c \in cols |->
        CASE c = "FID" -> IntCell(key)
          [] c = "Individual_Age" -> IntCell(7)
          [] c = "Individual_FullName" ->
                StrCell("t" \o ToString(t) \o "r" \o ToString(r))
          [] c = "Individual_Sex" -> StrCell("F")
          [] OTHER -> StrCell("child")]

TableNames == <<"children_a", "children_b">>

KeySeqs(n) == UNION {[1..m -> Keys] : m \in 0..n}

\* the identifier columns of the parent tables: every identifier at most once
ParentIdSeqs ==
    {ids \in KeySeqs(Cardinality(Keys)) :
        \A a, b \in DOMAIN ids : ids[a] = ids[b] => a = b}

ParentColumnSets == {ParentFields, ParentFields \ {"HName"},
                     ParentFields \ {"FID"}}
ChildColumnSets == {ChildFields, ChildFields \ {"Relationship"},
                    ChildFields \ {"FID"}}

ParentTable(cols, ids) ==
    [columns |-> cols, rows |-> [k \in DOMAIN ids |-> ParentRow(cols, ids[k])]]

\* a configured child table: its display name, whether its file exists,
\* and what pd.read_excel returns for it
ChildSource(t, exists, cols, keys) ==
    [name |-> TableNames[t], isfile |-> exists,
     df |-> [columns |-> cols,
             rows |-> [r \in DOMAIN keys |-> ChildRow(cols, t, r, keys[r])]]]

ChildSources(t) ==
    {ChildSource(t, FALSE, {}, <<>>)} \cup
    {ChildSource(t, TRUE, cols, keys) :
        cols \in ChildColumnSets, keys \in KeySeqs(MaxChildRows)}

-----------------------------------------------------------------------------
(* Record matching, lines 145-153 of main.                                 *)

\* lines 149-150: read the sheet and keep the rows whose key equals parent_id
ReadMatching(src, parent_id) ==
    IF child_id_column \notin src.df.columns
    THEN [raised |-> TRUE, records |-> <<>>, warned |-> <<>>]
    ELSE [raised |-> FALSE,
          records |-> SelectSeq(src.df.rows,
                        LAMBDA r : CellEq(r[child_id_column], parent_id)),
          warned |-> <<>>]

\* a variant of MatchTable without the os.path.isfile test: reading a
\* missing file raises
MatchTableUnchecked(src, parent_id) ==
    IF src.isfile
    THEN ReadMatching(src, parent_id)
    ELSE [raised |-> TRUE, records |-> <<>>, warned |-> <<>>]

\* lines 148-152: one configured child table
MatchTable(src, parent_id) ==
    IF src.isfile
    THEN ReadMatching(src, parent_id)
    ELSE [raised |-> FALSE, records |-> <<>>, warned |-> <<src.name>>]

\* a variant of Extend that puts the new table's rows first
ExtendInFront(data, records) == records \o data

\* matching_rows_data.extend(...) of line 150
Extend(data, records) == data \o records

\* lines 145-152: the loop over df_children from table k on
RECURSIVE MatchFrom(_, _, _, _)
MatchFrom(srcs, k, parent_id, acc) ==
    IF k > Len(srcs) THEN acc
    ELSE LET m == MatchTable(srcs[k], parent_id) IN
         IF m.raised
         THEN [raised |-> TRUE, records |-> acc.records, warned |-> acc.warned]
         ELSE MatchFrom(srcs, k + 1, parent_id,
                  [raised |-> FALSE,
                   records |-> Extend(acc.records, m.records),
                   warned |-> acc.warned \o m.warned])

matching_rows_data(srcs, parent_id) ==
    MatchFrom(srcs, 1, parent_id,
              [raised |-> FALSE, records |-> <<>>, warned |-> <<>>])

\* line 153: pd.DataFrame(list of dicts): the union of the keys as columns,
\* NaN where a dict has no such key
DataFrame(data) ==
    LET cols == UNION {DOMAIN data[j] : j \in DOMAIN data} IN
    [columns |-> cols,
     rows |-> [j \in DOMAIN data |->
                 [c \in cols |-> IF c \in DOMAIN data[j] THEN data[j][c]
                                 ELSE NaN]]]

-----------------------------------------------------------------------------
(* process_submission, lines 31-94.                                        *)

Element(tag, text, children) ==
    [tag |-> tag, text |-> text, children |-> children]

\* DataFrame.empty
Empty(df) == Len(df.rows) = 0 \/ df.columns = {}

\* line 72
has_child_record(matching_rows) ==
    IF ~Empty(matching_rows) THEN "Yes" ELSE "No"

\* a variant of child_count that forgets the household head
child_count_NoHead(matching_rows) == Len(matching_rows.rows)

\* line 76
child_count(matching_rows) == Len(matching_rows.rows) + 1

\* lines 64-77
household(row, matching_rows) ==
    Element("household", "",
        << Element("FID", str(row["FID"]), <<>>),
           Element("HName", str(row["HName"]), <<>>),
           Element("HSex", str(row["HSex"]), <<>>),
           Element("HAge", str(row["HAge"]), <<>>),
           Element("HLocation", str(row["HLocation"]), <<>>),
           Element("other_members", has_child_record(matching_rows), <<>>),
           Element("HHSize", str(IntCell(child_count(matching_rows))), <<>>) >>)

\* lines 81-87
Individual(matching_row) ==
    Element("Individual", "",
        << Element("FID", str(matching_row["FID"]), <<>>),
           Element("Individual_FullName",
                   str(matching_row["Individual_FullName"]), <<>>),
           Element("Individual_Sex",
                   str(matching_row["Individual_Sex"]), <<>>),
           Element("Individual_Age",
                   str(matching_row["Individual_Age"]), <<>>),
           Element("Relationship", str(matching_row["Relationship"]), <<>>) >>)

\* lines 80-87: where the Individual elements go
AddIndividuals(root, hh, individuals) ==
    [root EXCEPT !.children = @ \o <<hh>> \o individuals]

\* a row lookup by a name that is no column raises KeyError
BuildRaises(row, matching_rows) ==
    \/ ParentFields \ DOMAIN row # {}
    \/ /\ Len(matching_rows.rows) > 0
       /\ ChildFields \ matching_rows.columns # {}

process_submission(row, matching_rows, uuid) ==
    LET root0 == [tag |-> "data",
                  attrib |-> [id |-> uuid,
                              xmlns_orx |-> "http://openrosa.org/xforms",
                              xmlns_jr |-> "http://openrosa.org/javarosa"],
                  text |-> "",
                  children |->
                    << Element("start", today_str, <<>>),
                       Element("end", today_str, <<>>),
                       Element("today", today_str, <<>>),
                       Element("intro", "",
                           <<Element("acknowledgement", "OK", <<>>)>>) >>]
        individuals == [j \in DOMAIN matching_rows.rows |->
                           Individual(matching_rows.rows[j])]
        root1 == AddIndividuals(root0, household(row, matching_rows),
                                individuals)
    IN  [root1 EXCEPT !.children = Append(@,
            Element("meta", "", <<Element("instanceID", uuid, <<>>)>>))]

-----------------------------------------------------------------------------
(* One pass of the loop body of main, lines 144-154, for parent row k.     *)

Attempt(k) ==
    LET row == df_parent.rows[k] IN
    IF parent_id_column \notin DOMAIN row
    THEN [raised |-> TRUE, warned |-> <<>>]
    ELSE LET m == matching_rows_data(df_children, row[parent_id_column]) IN
         IF m.raised
         THEN [raised |-> TRUE, warned |-> m.warned]
         ELSE LET matching_rows_df == DataFrame(m.records) IN
              IF BuildRaises(row, matching_rows_df)
              THEN [raised |-> TRUE, warned |-> m.warned]
              ELSE [raised |-> FALSE, warned |-> m.warned,
                    root |-> process_submission(row, matching_rows_df,
                                                project_uuid)]

-----------------------------------------------------------------------------
(* The executor.                                                           *)

InFlight == {d \in DOMAIN st : st[d] = "running"}

Finished == {"logged_status_201", "logged_status_500", "logged_exception"}

\* a variant of AdjustThreadCount that starts a thread for every work item
AdjustThreadCountUnbounded(n, busy) == IF busy >= n THEN n + 1 ELSE n

\* ThreadPoolExecutor(max_workers=5).submit starts a thread when no started
\* thread is free for the new work item and fewer than max_workers exist
AdjustThreadCount(n, busy) ==
    IF busy >= n /\ n < max_workers THEN n + 1 ELSE n


Pending == Cardinality(InFlight) + Len(queue)

\* executor.submit(post_submission, root, endpoint, headers), line 155
Submit(root) ==
    /\ docs' = Append(docs, root)
    /\ st' = Append(st, "queued")
    /\ reqs' = Append(reqs, 0)
    /\ queue' = Append(queue, Len(docs) + 1)
    /\ nThreads' = AdjustThreadCount(nThreads, Pending)

-----------------------------------------------------------------------------
(* The initial states: what the files hold when main starts.               *)

ChildConfigs ==
    {<<>>} \cup {<<a>> : a \in ChildSources(1)}
           \cup {<<a, b>> : a \in ChildSources(1), b \in ChildSources(2)}

InitMain ==
    /\ pc = "start"
    /\ i = 1
    /\ err = FALSE
    /\ docs = <<>>
    /\ st = <<>>
    /\ reqs = <<>>
    /\ queue = <<>>
    /\ nThreads = 0
    /\ warnings = <<>>

\* every small parent table with every small configuration of child tables
Init ==
    /\ df_parent \in {ParentTable(cols, ids) :
                        cols \in ParentColumnSets, ids \in ParentIdSeqs}
    /\ df_children \in ChildConfigs
    /\ InitMain

\* long batches over two fixed configurations: one whose second table is
\* missing, one whose table lacks a column the builder reads
PoolChildConfigs ==
    { << ChildSource(1, TRUE, ChildFields, <<1, 1, 2>>),
         ChildSource(2, FALSE, {}, <<>>) >>,
      << ChildSource(1, TRUE, ChildFields \ {"Relationship"}, <<3>>) >> }

PoolInit ==
    /\ df_parent \in {ParentTable(ParentFields, [k \in 1..n |-> k]) :
                        n \in 0..MaxBatch}
    /\ df_children \in PoolChildConfigs
    /\ InitMain

FairInit ==
    /\ df_parent \in {ParentTable(ParentFields, [k \in 1..n |-> k]) :
                        n \in 0..MaxFairBatch}
    /\ df_children \in PoolChildConfigs
    /\ InitMain

-----------------------------------------------------------------------------
(* main, lines 118-155.                                                    *)

\* lines 132-140: the configuration loads
LoadConfigOk ==
    /\ pc = "start"
    /\ pc' = "loop"
    /\ UNCHANGED <<df_parent, df_children, i, err, docs, st, reqs, queue,
                   nThreads, warnings>>

\* lines 26-28, 133-134: load_config returns None and main returns
LoadConfigFail ==
    /\ pc = "start"
    /\ pc' = "no_config"
    /\ UNCHANGED <<df_parent, df_children, i, err, docs, st, reqs, queue,
                   nThreads, warnings>>

\* lines 143-155: one parent row is matched, built and submitted
IterateBody ==
    /\ pc = "loop"
    /\ i <= Len(df_parent.rows)
    /\ LET a == Attempt(i) IN
        /\ ~a.raised
        /\ warnings' = warnings \o a.warned
        /\ Submit(a.root)
    /\ i' = i + 1
    /\ UNCHANGED <<df_parent, df_children, pc, err>>

\* a variant of Iterate whose submit blocks while every worker is busy
IterateBlocking == Pending < max_workers /\ IterateBody

Iterate == IterateBody

\* a variant of IterateRaise that swallows the exception and goes on with
\* the next parent row
IterateRaiseContinue ==
    /\ pc = "loop"
    /\ i <= Len(df_parent.rows)
    /\ LET a == Attempt(i) IN
        /\ a.raised
        /\ warnings' = warnings \o a.warned
    /\ err' = TRUE
    /\ i' = i + 1
    /\ UNCHANGED <<df_parent, df_children, pc, docs, st, reqs, queue, nThreads>>

\* lines 143-154: matching or building raises; the exception leaves the loop
\* and reaches the executor's __exit__
IterateRaise ==
    /\ pc = "loop"
    /\ i <= Len(df_parent.rows)
    /\ LET a == Attempt(i) IN
        /\ a.raised
        /\ warnings' = warnings \o a.warned
    /\ err' = TRUE
    /\ pc' = "exiting"
    /\ UNCHANGED <<df_parent, df_children, i, docs, st, reqs, queue, nThreads>>

\* line 143: the parent rows are exhausted; the with block ends
LoopEnd ==
    /\ pc = "loop"
    /\ i > Len(df_parent.rows)
    /\ pc' = "exiting"
    /\ UNCHANGED <<df_parent, df_children, i, err, docs, st, reqs, queue,
                   nThreads, warnings>>

\* a variant of Shutdown that does not wait: shutdown(wait=False)
ShutdownNoWait ==
    /\ pc = "exiting"
    /\ pc' = IF err THEN "raised" ELSE "returned"
    /\ UNCHANGED <<df_parent, df_children, i, err, docs, st, reqs, queue,
                   nThreads, warnings>>

\* line 142: __exit__ is shutdown(wait=True): it joins the workers, which
\* drain the queue first; then main returns or the exception goes on
Shutdown ==
    /\ pc = "exiting"
    /\ queue = <<>>
    /\ InFlight = {}
    /\ pc' = IF err THEN "raised" ELSE "returned"
    /\ UNCHANGED <<df_parent, df_children, i, err, docs, st, reqs, queue,
                   nThreads, warnings>>

-----------------------------------------------------------------------------
(* post_submission on a worker thread, lines 97-115.                       *)

\* a free worker takes the oldest work item, serialises the document and
\* calls requests.post (lines 110-112)
Take ==
    /\ queue # <<>>
    /\ Cardinality(InFlight) < nThreads
    /\ LET d == Head(queue) IN
        /\ st' = [st EXCEPT ![d] = "running"]
        /\ reqs' = [reqs EXCEPT ![d] = @ + 1]
    /\ queue' = Tail(queue)
    /\ UNCHANGED <<df_parent, df_children, pc, i, err, docs, nThreads,
                   warnings>>

\* line 113: the service answered; whatever the status, it is only logged
PostResponse(d) ==
    /\ st[d] = "running"
    /\ \E outcome \in {"logged_status_201", "logged_status_500"} :
          st' = [st EXCEPT ![d] = outcome]
    /\ UNCHANGED <<df_parent, df_children, pc, i, err, docs, reqs, queue,
                   nThreads, warnings>>

\* a variant of PostRaise whose exception tears the pool down: the work
\* still queued is dropped
PostRaiseAborts(d) ==
    /\ st[d] = "running"
    /\ st' = [st EXCEPT ![d] = "logged_exception"]
    /\ queue' = <<>>
    /\ UNCHANGED <<df_parent, df_children, pc, i, err, docs, reqs,
                   nThreads, warnings>>

\* a variant of PostRaise that sends the document again
PostRaiseRetry(d) ==
    /\ st[d] = "running"
    /\ st' = [st EXCEPT ![d] = "queued"]
    /\ queue' = Append(queue, d)
    /\ UNCHANGED <<df_parent, df_children, pc, i, err, docs, reqs,
                   nThreads, warnings>>

\* lines 114-115: requests.post raised; the exception is caught and logged
PostRaise(d) ==
    /\ st[d] = "running"
    /\ st' = [st EXCEPT ![d] = "logged_exception"]
    /\ UNCHANGED <<df_parent, df_children, pc, i, err, docs, reqs, queue,
                   nThreads, warnings>>

MainStep ==
    \/ LoadConfigOk
    \/ LoadConfigFail
    \/ Iterate
    \/ IterateRaise
    \/ LoopEnd
    \/ Shutdown

WorkerStep ==
    \/ Take
    \/ \E d \in DOMAIN st : PostResponse(d)
    \/ \E d \in DOMAIN st : PostRaise(d)

Next == MainStep \/ WorkerStep

Spec == Init /\ [][Next]_vars

PoolSpec == PoolInit /\ [][Next]_vars

\* the main thread and the workers are scheduled, and every request ends
FairSpec ==
    FairInit /\ [][Next]_vars /\ WF_vars(MainStep) /\ WF_vars(WorkerStep)


-----------------------------------------------------------------------------
(* What the documents are compared with: the child rows of a parent row,   *)
(* read off the files themselves.                                          *)

Terminal == {"no_config", "returned", "raised"}

ChildrenTagged(e, tag) == SelectSeq(e.children, LAMBDA c : c.tag = tag)

TextOf(e, tag) == ChildrenTagged(e, tag)[1].text

\* the identifier of the parent row behind the d-th document
ParentIdOf(d) == df_parent.rows[d]["FID"].v

\* <<t, r>>: row r of the existing child table t refers to parent pid
MatchPairs(pid) ==
    {<<t, r>> \in (DOMAIN df_children) \X (1..(MaxChildRows + 1)) :
        /\ df_children[t].isfile
        /\ r \in DOMAIN df_children[t].df.rows
        /\ "FID" \in df_children[t].df.columns
        /\ df_children[t].df.rows[r]["FID"] = IntCell(pid)}

\* a set of <<t, r>> in table order, then row order
RECURSIVE InOrder(_)
InOrder(S) ==
    IF S = {} THEN <<>>
    ELSE LET m == CHOOSE p \in S : \A q \in S :
                     p[1] < q[1] \/ (p[1] = q[1] /\ p[2] <= q[2])
         IN <<m>> \o InOrder(S \ {m})

MissingNames ==
    LET missing == SelectSeq(df_children, LAMBDA src : ~src.isfile)
    IN [k \in DOMAIN missing |-> missing[k].name]

\* parent row k and the child tables that exist have every column read
WellFormed(k) ==
    /\ ParentFields \subseteq df_parent.columns
    /\ \A t \in DOMAIN df_children :
          df_children[t].isfile =>
              child_id_column \in df_children[t].df.columns
    /\ LET pid == df_parent.rows[k]["FID"].v
           cols == UNION {df_children[p[1]].df.columns : p \in MatchPairs(pid)}
       IN MatchPairs(pid) # {} => ChildFields \subseteq cols

-----------------------------------------------------------------------------
(* The claims.                                                             *)

\* C1: in every reachable state the number of post_submission calls that
\* have started and not finished is at most the pool size, 5.
C1_InFlightAtMostFive == Cardinality(InFlight) <= 5

\* C1 witness: five requests are in flight and a sixth document waits.
C1_Witness == Cardinality(InFlight) = 5 /\ queue # <<>>

\* C2: a dispatch that fails (an exception, or an error status) aborts no
\* other dispatch and does not fail the run: no queued dispatch ever leaves
\* the queue unsent, once main has ended every submitted document has had
\* its request attempted, and main ends with an exception only when
\* matching or building raised.
C2_FailureIsolated ==
    /\ \A d \in DOMAIN st :
          st[d] = "queued" => \E q \in DOMAIN queue : queue[q] = d
    /\ pc \in Terminal =>
          \A d \in DOMAIN docs : st[d] \in Finished /\ reqs[d] >= 1
    /\ pc = "raised" => i <= Len(df_parent.rows) /\ Attempt(i).raised

\* C2 witness: main returned; the first dispatch raised, the second got an
\* error status, and the dispatches after them were sent and answered.
C2_Witness ==
    /\ pc = "returned"
    /\ Len(st) > max_workers
    /\ st[1] = "logged_exception"
    /\ st[2] = "logged_status_500"
    /\ \A d \in 3..Len(st) : st[d] = "logged_status_201"

\* C3: main never returns while a submitted dispatch is queued or in
\* flight, and when every dispatch ends, main ends.
C3_CompletesWhenAllFinished ==
    /\ [](pc \in Terminal =>
            /\ queue = <<>>
            /\ InFlight = {}
            /\ \A d \in DOMAIN st : st[d] \in Finished)
    /\ <>(pc \in Terminal)

\* C3 witness: main returned from a batch of several rows whose dispatches
\* ended in each of the three ways.
C3_Witness ==
    /\ pc = "returned"
    /\ Len(st) >= 3
    /\ st[1] = "logged_status_201"
    /\ st[2] = "logged_status_500"
    /\ st[Len(st)] = "logged_exception"

\* C4: every document has HHSize equal to the text of N+1 and other_members
\* "Yes" when N >= 1 and "No" when N = 0, N being the number of child rows
\* matched to its parent row.
C4_HouseholdSize ==
    \A d \in DOMAIN docs :
        LET N == Cardinality(MatchPairs(ParentIdOf(d)))
            hh == ChildrenTagged(docs[d], "household")
        IN /\ Len(hh) = 1
           /\ Len(ChildrenTagged(hh[1], "HHSize")) = 1
           /\ Len(ChildrenTagged(hh[1], "other_members")) = 1
           /\ TextOf(hh[1], "HHSize") = ToString(N + 1)
           /\ TextOf(hh[1], "other_members") = IF N >= 1 THEN "Yes" ELSE "No"

\* C4 witness: one document of a parent without children (HHSize 1, No) and
\* one of a parent with children from two tables.
C4_Witness ==
    /\ Len(docs) = 2
    /\ MatchPairs(ParentIdOf(1)) = {}
    /\ \E r1, r2 \in 1..MaxChildRows :
          {<<1, r1>>, <<2, r2>>} \subseteq MatchPairs(ParentIdOf(2))

\* C5: the Individual elements of a document are exactly the rows of the
\* existing child tables whose key equals the parent's identifier, one per
\* row, in table order and then row order, and they are children of the
\* root, beside household and not inside it.
C5_IndividualsAreTheMatchedRows ==
    \A d \in DOMAIN docs :
        LET pid == ParentIdOf(d)
            expected == InOrder(MatchPairs(pid))
            inds == ChildrenTagged(docs[d], "Individual")
            hh == ChildrenTagged(docs[d], "household")
        IN /\ Len(inds) = Len(expected)
           /\ \A j \in DOMAIN inds :
                 LET src == df_children[expected[j][1]].df.rows[expected[j][2]]
                 IN /\ TextOf(inds[j], "FID") = ToString(pid)
                    /\ TextOf(inds[j], "Individual_FullName")
                          = src["Individual_FullName"].v
           /\ Len(hh) = 1
           /\ ChildrenTagged(hh[1], "Individual") = <<>>
           /\ docs[d].tag = "data"

\* C5 witness: a document whose parent has rows in both tables, two of them
\* in the same table, with a row of another parent in between.
C5_Witness ==
    \E d \in DOMAIN docs :
        /\ \E t \in DOMAIN df_children :
              {<<t, 1>>, <<t, 2>>} \subseteq MatchPairs(ParentIdOf(d))
        /\ \E r \in 1..MaxChildRows : <<2, r>> \in MatchPairs(ParentIdOf(d))
        /\ \E r \in 1..MaxChildRows :
              /\ r \in DOMAIN df_children[1].df.rows
              /\ <<1, r>> \notin MatchPairs(ParentIdOf(d))

\* C6: a configured child table whose file is missing never raises: each
\* parent row logs one warning naming it, it contributes no child row, the
\* other tables are still matched, and the document is built and submitted.
C6_MissingTableSkipped ==
    /\ err => ~WellFormed(i)
    /\ Len(docs) = (IF pc = "start" \/ pc = "no_config" THEN 0
                    ELSE i - 1)
    /\ DOMAIN st = DOMAIN docs
    /\ Len(warnings) >= Len(docs) * Len(MissingNames)
    /\ \A j \in 1..(Len(docs) * Len(MissingNames)) :
          warnings[j] = MissingNames[((j - 1) % Len(MissingNames)) + 1]
    /\ \A d \in DOMAIN docs :
          Len(ChildrenTagged(docs[d], "Individual"))
              = Cardinality(MatchPairs(ParentIdOf(d)))

\* C6 witness: the first table is missing, the second gave a child row, and
\* the document was built, sent and answered.
C6_Witness ==
    /\ Len(df_children) = 2
    /\ ~df_children[1].isfile
    /\ Len(docs) >= 1
    /\ MatchPairs(ParentIdOf(1)) # {}
    /\ st[1] = "logged_status_201"
    /\ warnings # <<>>

\* C7: whenever the parent row or a matched child row lacks a field the
\* builder reads, no document is built for that parent row.
C7_MissingFieldFailsLoudly ==
    \A d \in DOMAIN docs :
        /\ ParentFields \subseteq DOMAIN df_parent.rows[d]
        /\ \A p \in MatchPairs(ParentIdOf(d)) :
              ChildFields \subseteq DOMAIN df_children[p[1]].df.rows[p[2]]

\* C8: each document is consumed once and each dispatch makes one request
\* with no retry: no document ever has more than one request, and when main
\* returns the requests are one per parent row.
C8_OneRequestPerRow ==
    /\ \A d \in DOMAIN reqs :
          reqs[d] = (IF st[d] = "queued" THEN 0 ELSE 1)
    /\ \A q1, q2 \in DOMAIN queue : queue[q1] = queue[q2] => q1 = q2
    /\ pc = "returned" => Len(reqs) = Len(df_parent.rows)

\* C8 witness: main returned from a batch of more than five rows in which
\* requests raised and were answered with an error status.
C8_Witness ==
    /\ pc = "returned"
    /\ Len(reqs) > max_workers
    /\ \E d \in DOMAIN st : st[d] = "logged_exception"
    /\ \E d \in DOMAIN st : st[d] = "logged_status_500"
    /\ \E d \in DOMAIN st : st[d] = "logged_status_201"

\* C9: submitting never blocks the loop: inside the loop main can take its
\* next step whatever is queued or in flight, also with every worker held
\* by a request that does not end, and while fewer than five requests are
\* in flight a worker can take the oldest queued document.
C9_SubmitNeverBlocks ==
    /\ pc = "loop" => ENABLED MainStep
    /\ (queue # <<>> /\ Cardinality(InFlight) < 5) => ENABLED Take

\* C9 witness: the first request still hangs while every later row was
\* built, submitted, sent and answered, in a batch longer than the pool.
C9_Witness ==
    /\ pc = "exiting"
    /\ Len(st) = Len(df_parent.rows)
    /\ Len(st) > max_workers
    /\ st[1] = "running"
    /\ \A d \in 2..Len(st) : st[d] \in Finished

\* C10: when matching or building raises for parent row k the batch stops
\* there: no later row is built or submitted, and the dispatches of the
\* rows before k have all ended when the exception leaves main.
C10_BuildErrorStopsBatch ==
    err =>
        /\ pc \in {"exiting", "raised"}
        /\ i <= Len(df_parent.rows)
        /\ Attempt(i).raised
        /\ Len(docs) = i - 1
        /\ Len(st) = i - 1
        /\ pc = "raised" => \A d \in DOMAIN st : st[d] \in Finished

\* C10 witness: row 3 of a longer batch raised, and main ended with the
\* exception after the two earlier dispatches had ended.
C10_Witness ==
    /\ pc = "raised"
    /\ i = 3
    /\ Len(df_parent.rows) > 3
    /\ Len(st) = 2
    /\ \A d \in DOMAIN st : st[d] \in Finished

=============================================================================
